---- MODULE Spec2Model ----
(***************************************************************************)
(* A model of pomice.player.Player (src/pomice/player.py): the voice       *)
(* session proxy of one guild, the messages it sends to its node and the   *)
(* events it receives from the node and from the voice gateway.            *)
(*                                                                         *)
(* Every method is a pure operator on a record p holding the fields of the *)
(* player (and the node's registry), the messages sent to the node by the  *)
(* call in progress (p.sent) and the exception the call raised (p.raised). *)
(* An action runs one whole method on the current state and commits the    *)
(* result.  A method that raises keeps the assignments made before the     *)
(* raise, as Python does.                                                  *)
(***************************************************************************)
EXTENDS Integers, Sequences, FiniteSets, TLC

\* ------------------------------------------------------------- bounds
MaxLen  == 2    \* the longest track, in ms
MaxPos  == 2    \* the largest position a state-update event of the node reports
MaxTime == 1    \* how far the clock advances past Epoch

\* ------------------------------------------------------------- values
None == "None"

\* self._guild.id, an int (str(self.guild.id) is what the messages carry).
guild_id == 1

\* str(n) of Python for a non-negative int.
str(n) == ToString(n)

\* int(s) of Python for the decimal string of a small non-negative int.
int(s) == CHOOSE n \in 0..9 : ToString(n) = s

\* The channels of the guild, by id: guild.get_channel(id) is the channel
\* object, or None for an id the guild does not know.
get_channel(id) == IF id = 7 THEN "vc7" ELSE None

\* time.time() * 1000 when the player object is built: far more than any
\* track length, so that _last_update = 0 lies a long way in the past.
Epoch == MaxLen + 1

\* objects.Track: the track objects the caller can pass to play().  A and B
\* are node tracks, S is a Spotify track (track.spotify is true).
Tracks      == {"A", "B", "S"}
PlainTracks == {"A", "B"}
spotify(t)  == t = "S"
track_id(t) == CASE t = "A" -> "idA" [] t = "B" -> "idB" [] OTHER -> "spotify:S"
length(t)   == CASE t = "A" -> 1 [] OTHER -> MaxLen

\* filters.Filter objects the caller can pass to set_filter().
Filters == {"f1"}

\* What the caller can pass to set_volume(): the code takes any int.
DefaultVolume == 100
LavalinkMaxVolume == 500
Volumes == {0, LavalinkMaxVolume, LavalinkMaxVolume + 1}

\* What the node returns from get_tracks() for a Spotify track's query.
SearchResults == {<< >>} \cup {<<t>> : t \in PlainTracks}

\* Voice gateway payloads.
Sessions       == {"s1", "s2"}
ServerPayloads == {[t |-> "VOICE_SERVER_UPDATE", token |-> k] : k \in {"k1", "k2"}}
StatePayloads  == {[t |-> "VOICE_STATE_UPDATE", session_id |-> s, channel_id |-> c] :
                     s \in Sessions, c \in {None, "7"}}

\* The state-update events of the node.
StateEvents == {[state |-> [connected |-> c, position |-> x]] :
                  c \in BOOLEAN, x \in 0..MaxPos}

Min(a, b) == IF a < b THEN a ELSE b

\* ------------------------------------------------------------- state
VARIABLES
  channel,          \* self.channel
  _current,         \* self._current
  _filter,          \* self._filter
  _volume,          \* self._volume
  _paused,          \* self._paused
  _is_connected,    \* self._is_connected
  is_connected,     \* the instance attribute self.is_connected; FALSE: not set
  _last_position,   \* self._last_position
  _last_update,     \* self._last_update
  _voice_state,     \* self._voice_state, a dict
  _players,         \* self._node._players, guild id -> player
  youtube_result,   \* track.youtube_result of the Spotify track
  now,              \* time.time() * 1000
  call,             \* the last method called: [name, args]
  sent,             \* the messages that call sent to the node, in order
  raised,           \* the exception that call raised, or None
  node_filters,     \* history: the 'filters' messages' filter last sent, <<f>>
  state_event,      \* history: the last state-update event processed, <<e>>
  server_update,    \* history: the last voice-server update received, <<d>>
  state_update,     \* history: the last voice-state update received, <<d>>
  received          \* history: the kinds of voice update received since
                    \* _voice_state was last empty

player_vars == <<channel, _current, _filter, _volume, _paused, _is_connected,
                 is_connected, _last_position, _last_update, _voice_state,
                 _players, youtube_result>>
vars == <<channel, _current, _filter, _volume, _paused, _is_connected,
          is_connected, _last_position, _last_update, _voice_state,
          _players, youtube_result, now, call, sent, raised,
          node_filters, state_event, server_update, state_update, received>>

\* The player as a call finds it: nothing sent yet, nothing raised.
Self ==
  [channel |-> channel, _current |-> _current, _filter |-> _filter,
   _volume |-> _volume, _paused |-> _paused, _is_connected |-> _is_connected,
   is_connected |-> is_connected, _last_position |-> _last_position,
   _last_update |-> _last_update, _voice_state |-> _voice_state,
   _players |-> _players, youtube_result |-> youtube_result,
   sent |-> << >>, raised |-> None]

\* ------------------------------------------------------------- helpers
\* raise e
Raise(p, e) == [p EXCEPT !.raised = e]

\* await self._node.send(**msg)
send(p, msg) == [p EXCEPT !.sent = Append(@, msg)]

\* ------------------------------------------------------------- properties
current(p) == p._current

is_playing(p) == p._is_connected /\ current(p) # None

is_paused(p) == p._is_connected /\ p._paused

volume(p) == p._volume

filter(p) == p._filter

\* position with the test 'position > self.current.length' left out.
position_unchecked(p, t) ==
  IF ~is_playing(p) \/ current(p) = None THEN 0
  ELSE IF is_paused(p) THEN Min(p._last_position, length(current(p)))
  ELSE p._last_position + (t - p._last_update)

\* The position property, read when the clock shows t.
position(p, t) ==
  IF ~is_playing(p) \/ current(p) = None THEN 0
  ELSE IF is_paused(p) THEN Min(p._last_position, length(current(p)))
  ELSE LET difference == t - p._last_update
           pos        == p._last_position + difference
       IN  IF pos > length(current(p)) THEN 0
           ELSE Min(pos, length(current(p)))

\* ------------------------------------------------------------- methods
Player ==
  [channel |-> "vc7", _current |-> None, _filter |-> None,
   _volume |-> DefaultVolume, _paused |-> FALSE, _is_connected |-> FALSE,
   is_connected |-> FALSE, _last_position |-> 0, _last_update |-> 0,
   _voice_state |-> << >>, _players |-> << >>, youtube_result |-> None,
   sent |-> << >>, raised |-> None]

\* _update_state that does not take the event's position.
_update_state_stale(p, data, t) ==
  [p EXCEPT !._last_update = t, !._is_connected = data.state.connected]

_update_state(p, data, t) ==
  LET state == data.state
  IN  [p EXCEPT !._last_update = t,
                !._is_connected = state.connected,
                !._last_position = state.position]

\* _dispatch_voice_update that tests the keys of the dict it was passed.
_dispatch_voice_update_of_data(p, voice_data) ==
  IF {"sessionId", "event"} # DOMAIN voice_data THEN p
  ELSE send(p, [op |-> "voiceUpdate", guildId |-> str(guild_id)] @@ voice_data)

_dispatch_voice_update(p, voice_data) ==
  IF {"sessionId", "event"} # DOMAIN p._voice_state THEN p
  ELSE send(p, [op |-> "voiceUpdate", guildId |-> str(guild_id)] @@ voice_data)

on_voice_server_update(p, data) ==
  LET q == [p EXCEPT !._voice_state = ("event" :> data) @@ @]
  IN  _dispatch_voice_update(q, q._voice_state)

on_voice_state_update(p, data) ==
  LET q == [p EXCEPT !._voice_state = ("sessionId" :> data.session_id) @@ @]
  IN  IF data.channel_id = None
      THEN [q EXCEPT !.channel = None, !._voice_state = << >>]
      ELSE LET r == [q EXCEPT !.channel = get_channel(int(data.channel_id))]
           IN  _dispatch_voice_update(r, ("event" :> data) @@ r._voice_state)

connect(p) ==
  [p EXCEPT !._players = (guild_id :> "self") @@ @,
            !.is_connected = TRUE]

\* self.current = value: current is a property with a getter only, so the
\* assignment raises AttributeError and nothing is assigned.
set_current(p, value) == Raise(p, "AttributeError")

stop(p) ==
  LET q == set_current(p, None)
  IN  IF q.raised # None THEN q
      ELSE send(q, [op |-> "stop", guildId |-> str(guild_id)])

disconnect(p) ==
  LET q == stop(p)
  IN  IF q.raised # None THEN q
      ELSE LET r == [q EXCEPT !.channel = None, !._is_connected = FALSE]
           IN  IF guild_id \in DOMAIN r._players
               THEN [r EXCEPT !._players =
                       [g \in DOMAIN r._players \ {guild_id} |-> r._players[g]]]
               ELSE Raise(r, "KeyError")

destroy(p) ==
  LET q == disconnect(p)
  IN  IF q.raised # None THEN q
      ELSE send(q, [op |-> "destroy", guildId |-> str(guild_id)])

\* play that sends the Spotify track's own length as endTime.
play_own_length(p, track, start_position, found) ==
  IF spotify(track) /\ found = << >> THEN Raise(p, "IndexError")
  ELSE LET sending == IF spotify(track) THEN found[1] ELSE track
           q == send([p EXCEPT !.youtube_result =
                        IF spotify(track) THEN sending ELSE @],
                     [op |-> "play", guildId |-> str(guild_id),
                      track |-> track_id(sending),
                      startTime |-> start_position,
                      endTime |-> length(track),
                      noReplace |-> FALSE])
       IN  [q EXCEPT !._current = track]

\* play(track, start_position); found is what self._node.get_tracks returns
\* for a Spotify track.
play(p, track, start_position, found) ==
  IF spotify(track)
  THEN IF found = << >> THEN Raise(p, "IndexError")
       ELSE LET spotify_track == found[1]
                q == send([p EXCEPT !.youtube_result = spotify_track],
                          [op |-> "play", guildId |-> str(guild_id),
                           track |-> track_id(spotify_track),
                           startTime |-> start_position,
                           endTime |-> length(spotify_track),
                           noReplace |-> FALSE])
            IN  [q EXCEPT !._current = track]
  ELSE LET q == send(p, [op |-> "play", guildId |-> str(guild_id),
                         track |-> track_id(track),
                         startTime |-> start_position,
                         endTime |-> length(track),
                         noReplace |-> FALSE])
       IN  [q EXCEPT !._current = track]

\* seek with the test 'position > self.current.length' left out.
seek_no_upper(p, pos) ==
  IF pos < 0 THEN Raise(p, "TrackInvalidPosition")
  ELSE IF current(p) = None THEN Raise(p, "AttributeError")
  ELSE send(p, [op |-> "seek", guildId |-> str(guild_id), position |-> pos])

seek(p, pos) ==
  IF pos < 0 THEN Raise(p, "TrackInvalidPosition")
  ELSE IF current(p) = None THEN Raise(p, "AttributeError")
  ELSE IF pos > length(current(p)) THEN Raise(p, "TrackInvalidPosition")
  ELSE send(p, [op |-> "seek", guildId |-> str(guild_id), position |-> pos])

\* set_pause that sends the message and does not keep the value.
set_pause_forgets(p, pause) ==
  send(p, [op |-> "pause", guildId |-> str(guild_id), pause |-> pause])

set_pause(p, pause) ==
  LET q == send(p, [op |-> "pause", guildId |-> str(guild_id), pause |-> pause])
  IN  [q EXCEPT !._paused = pause]

set_volume(p, v) ==
  LET q == send(p, [op |-> "volume", guildId |-> str(guild_id), volume |-> v])
  IN  [q EXCEPT !._volume = v]

\* set_filter(filter) called when the clock shows t; the message carries the
\* filter's payload, which stands here for the filter it was built from.
set_filter(p, f, t) ==
  LET q == send(p, [op |-> "filters", guildId |-> str(guild_id), payload |-> f])
      r == seek(q, position(q, t))
  IN  IF r.raised # None THEN r
      ELSE [r EXCEPT !._filter = f]

\* ------------------------------------------------------------- actions
\* The 'filters' message sent last, after a call that sent the messages s.
FiltersAfter(s) ==
  LET F == {i \in 1..Len(s) : s[i].op = "filters"}
  IN  IF F = {} THEN node_filters
      ELSE <<s[CHOOSE i \in F : \A j \in F : j <= i].payload>>

\* The kinds of voice update received since _voice_state was last empty,
\* after the call c that left the player as r.
ReceivedAfter(c, r) ==
  IF r._voice_state = << >> THEN {}
  ELSE IF c.name = "on_voice_server_update" THEN received \cup {"server"}
  ELSE IF c.name = "on_voice_state_update" THEN received \cup {"state"}
  ELSE received

\* The call c ran and left the player as r.
Commit(c, r) ==
  /\ call' = c
  /\ channel' = r.channel
  /\ _current' = r._current
  /\ _filter' = r._filter
  /\ _volume' = r._volume
  /\ _paused' = r._paused
  /\ _is_connected' = r._is_connected
  /\ is_connected' = r.is_connected
  /\ _last_position' = r._last_position
  /\ _last_update' = r._last_update
  /\ _voice_state' = r._voice_state
  /\ _players' = r._players
  /\ youtube_result' = r.youtube_result
  /\ sent' = r.sent
  /\ raised' = r.raised
  /\ node_filters' = FiltersAfter(r.sent)
  /\ received' = ReceivedAfter(c, r)

Init ==
  /\ channel = Player.channel
  /\ _current = Player._current
  /\ _filter = Player._filter
  /\ _volume = Player._volume
  /\ _paused = Player._paused
  /\ _is_connected = Player._is_connected
  /\ is_connected = Player.is_connected
  /\ _last_position = Player._last_position
  /\ _last_update = Player._last_update
  /\ _voice_state = Player._voice_state
  /\ _players = Player._players
  /\ youtube_result = Player.youtube_result
  /\ sent = Player.sent
  /\ raised = Player.raised
  /\ now = Epoch
  /\ call = [name |-> "__init__", args |-> << >>]
  /\ node_filters = << >>
  /\ received = {}
  /\ state_event = << >>
  /\ server_update = << >>
  /\ state_update = << >>

\* Time passes between two calls.
Tick ==
  /\ now < Epoch + MaxTime
  /\ now' = now + 1
  /\ UNCHANGED <<player_vars, call, sent, raised, node_filters, state_event,
                 server_update, state_update, received>>

UpdateState ==
  \E data \in StateEvents :
    /\ Commit([name |-> "_update_state", args |-> <<data>>],
              _update_state(Self, data, now))
    /\ state_event' = <<data>>
    /\ UNCHANGED <<now, server_update, state_update>>

OnVoiceServerUpdate ==
  \E data \in ServerPayloads :
    /\ Commit([name |-> "on_voice_server_update", args |-> <<data>>],
              on_voice_server_update(Self, data))
    /\ server_update' = <<data>>
    /\ UNCHANGED <<now, state_event, state_update>>

OnVoiceStateUpdate ==
  \E data \in StatePayloads :
    /\ Commit([name |-> "on_voice_state_update", args |-> <<data>>],
              on_voice_state_update(Self, data))
    /\ state_update' = <<data>>
    /\ UNCHANGED <<now, state_event, server_update>>

Connect ==
  /\ Commit([name |-> "connect", args |-> << >>], connect(Self))
  /\ UNCHANGED <<now, state_event, server_update, state_update>>

Stop ==
  /\ Commit([name |-> "stop", args |-> << >>], stop(Self))
  /\ UNCHANGED <<now, state_event, server_update, state_update>>

Disconnect ==
  /\ Commit([name |-> "disconnect", args |-> << >>], disconnect(Self))
  /\ UNCHANGED <<now, state_event, server_update, state_update>>

Destroy ==
  /\ Commit([name |-> "destroy", args |-> << >>], destroy(Self))
  /\ UNCHANGED <<now, state_event, server_update, state_update>>

Play ==
  \E track \in Tracks, start_position \in 0..1, found \in SearchResults :
    /\ spotify(track) \/ found = << >>    \* get_tracks is called for a Spotify track only
    /\ Commit([name |-> "play", args |-> <<track, start_position, found>>],
              play(Self, track, start_position, found))
    /\ UNCHANGED <<now, state_event, server_update, state_update>>

Seek ==
  \E pos \in -1..(MaxLen + 1) :
    /\ Commit([name |-> "seek", args |-> <<pos>>], seek(Self, pos))
    /\ UNCHANGED <<now, state_event, server_update, state_update>>

SetPause ==
  \E pause \in BOOLEAN :
    /\ Commit([name |-> "set_pause", args |-> <<pause>>], set_pause(Self, pause))
    /\ UNCHANGED <<now, state_event, server_update, state_update>>

SetVolume ==
  \E v \in Volumes :
    /\ Commit([name |-> "set_volume", args |-> <<v>>], set_volume(Self, v))
    /\ UNCHANGED <<now, state_event, server_update, state_update>>

SetFilter ==
  \E f \in Filters :
    /\ Commit([name |-> "set_filter", args |-> <<f>>], set_filter(Self, f, now))
    /\ UNCHANGED <<now, state_event, server_update, state_update>>

\* The playback side of the player: every method but the two voice gateway
\* handlers, which read and write only _voice_state and channel.
Next ==
  \/ Tick
  \/ UpdateState
  \/ Connect
  \/ Stop
  \/ Disconnect
  \/ Destroy
  \/ Play
  \/ Seek
  \/ SetPause
  \/ SetVolume
  \/ SetFilter

Spec == Init /\ [][Next]_vars

\* The voice side of the player: the voice gateway handlers and the methods
\* that assign channel or the registry.
VoiceNext ==
  \/ OnVoiceServerUpdate
  \/ OnVoiceStateUpdate
  \/ Connect
  \/ Stop
  \/ Disconnect
  \/ Destroy

VoiceSpec == Init /\ [][VoiceNext]_vars

\* ------------------------------------------------------------- claims
StopMsg    == [op |-> "stop", guildId |-> str(guild_id)]
DestroyMsg == [op |-> "destroy", guildId |-> str(guild_id)]

\* C1: a call to stop() completes without error, leaves current None (so
\* is_playing is false) and sends exactly one 'stop' message carrying the
\* player's guild id.
C1_StopStops ==
  call.name = "stop" =>
    /\ raised = None
    /\ current(Self) = None
    /\ ~is_playing(Self)
    /\ sent = <<StopMsg>>

\* C2: every 'voiceUpdate' message sent carries the player's guild id, the
\* sessionId of the most recent voice-state update and, as its event, the
\* payload of the most recent voice-server update.
C2_VoiceUpdateFields ==
  \A i \in 1..Len(sent) :
    sent[i].op = "voiceUpdate" =>
      /\ sent[i].guildId = str(guild_id)
      /\ state_update # << >>
      /\ sent[i].sessionId = state_update[1].session_id
      /\ server_update # << >>
      /\ sent[i].event = server_update[1]

\* C3: once a state-update event has been processed, the connected flag and
\* the last known position are those of the most recent such event, whatever
\* was called since; and is_playing is true exactly when the connected flag
\* is true and current is not None.
C3_MirrorsNodeState ==
  /\ state_event # << >> =>
       /\ _is_connected = state_event[1].state.connected
       /\ _last_position = state_event[1].state.position
  /\ is_playing(Self) <=> (_is_connected = TRUE /\ _current # None)

\* A track was played after the last state-update event, which said connected.
C3_Witness ==
  /\ state_event # << >>
  /\ state_event[1].state.connected
  /\ state_event[1].state.position > 0
  /\ call.name = "play"
  /\ is_playing(Self)

\* C4: after connect() completes the registry maps the guild id to this
\* player and the connected flag read by is_playing and is_paused is true.
C4_ConnectMarksConnected ==
  (call.name = "connect" /\ raised = None) =>
    /\ guild_id \in DOMAIN _players
    /\ _players[guild_id] = "self"
    /\ _is_connected = TRUE

\* C5: destroy() on a player the registry holds runs to completion, leaving
\* the registry without the guild id, channel None, the connected flag false,
\* and having sent 'stop' and then, last, 'destroy'.
C5_DestroyDisconnects ==
  [][(call'.name = "destroy" /\ guild_id \in DOMAIN _players) =>
       /\ raised' = None
       /\ guild_id \notin DOMAIN _players'
       /\ channel' = None
       /\ _is_connected' = FALSE
       /\ sent' = <<StopMsg, DestroyMsg>>]_vars

\* C6: after play(track, start_position) completes, current is the track
\* passed in and exactly one 'play' message was sent, with the guild id,
\* startTime = start_position, noReplace false, and the id and length of the
\* track itself or, for a Spotify track, of the first track the node found.
C6_PlaySendsOnePlay ==
  (call.name = "play" /\ raised = None) =>
    LET track == call.args[1]
        start_position == call.args[2]
        sending == IF spotify(track) THEN call.args[3][1] ELSE track
    IN  /\ _current = track
        /\ sent = <<[op |-> "play", guildId |-> str(guild_id),
                     track |-> track_id(sending),
                     startTime |-> start_position,
                     endTime |-> length(sending),
                     noReplace |-> FALSE]>>

\* A Spotify track was played, resolved to a track of another length.
C6_Witness ==
  /\ call.name = "play"
  /\ raised = None
  /\ spotify(call.args[1])
  /\ _current = call.args[1]
  /\ length(call.args[3][1]) # length(call.args[1])
  /\ call.args[2] > 0

\* C7: seek(position) with a current track: out of range it raises
\* TrackInvalidPosition, sends nothing and changes no player state; otherwise
\* it sends exactly one 'seek' message with that position and leaves current,
\* paused, volume and filter as they were.
C7_SeekChecksRange ==
  [][(call'.name = "seek" /\ _current # None) =>
       LET pos == call'.args[1]
       IN  IF pos < 0 \/ pos > length(_current)
           THEN /\ raised' = "TrackInvalidPosition"
                /\ sent' = << >>
                /\ UNCHANGED player_vars
           ELSE /\ raised' = None
                /\ sent' = <<[op |-> "seek", guildId |-> str(guild_id),
                              position |-> pos]>>
                /\ UNCHANGED <<_current, _paused, _volume, _filter>>]_vars

\* A seek past the end of the current track was refused.
C7_Witness ==
  /\ call.name = "seek"
  /\ _current # None
  /\ call.args[1] > length(_current)
  /\ raised = "TrackInvalidPosition"

\* C8: position is between 0 and current.length whenever a track is current,
\* 0 whenever the player is not playing; paused it is min(last reported
\* position, current.length); playing unpaused it is the last reported
\* position plus the time since the last state update, or 0 if that exceeds
\* current.length.
C8_PositionInRange ==
  LET pos == position(Self, now)
      sum == _last_position + (now - _last_update)
  IN  /\ _current # None => (0 <= pos /\ pos <= length(_current))
      /\ ~(_is_connected /\ _current # None) => pos = 0
      /\ (_is_connected /\ _current # None /\ _paused) =>
           pos = Min(_last_position, length(_current))
      /\ (_is_connected /\ _current # None /\ ~_paused) =>
           pos = IF sum > length(_current) THEN 0 ELSE sum

\* Playing unpaused, time has passed since the last state update and the
\* position has moved with it.
C8_Witness ==
  /\ is_playing(Self)
  /\ ~is_paused(Self)
  /\ now > _last_update
  /\ _last_position > 0
  /\ position(Self, now) = _last_position + (now - _last_update)

\* C9: after set_filter(f) finishes, normally or by raising, the filter
\* property is the filter of the last 'filters' message sent to the node.
C9_FilterIsWhatWasSent ==
  call.name = "set_filter" =>
    /\ node_filters # << >>
    /\ filter(Self) = node_filters[1]

\* C10: volume is 100 before any set_volume call; after set_volume(v)
\* exactly one 'volume' message carrying v was sent and volume is v; every
\* volume sent or reported is an amount from 0 to 500.
C10_VolumeInRange ==
  /\ call.name = "__init__" => volume(Self) = DefaultVolume
  /\ call.name = "set_volume" =>
       /\ raised = None
       /\ sent = <<[op |-> "volume", guildId |-> str(guild_id),
                    volume |-> call.args[1]]>>
       /\ volume(Self) = call.args[1]
  /\ volume(Self) \in 0..LavalinkMaxVolume
  /\ \A i \in 1..Len(sent) :
       sent[i].op = "volume" => sent[i].volume \in 0..LavalinkMaxVolume

\* C11: a 'voiceUpdate' message is sent only when, since the stored voice
\* state was last empty, both a voice-server update and a voice-state update
\* have been received; a voice-state update without a channel_id sets channel
\* to None, empties the stored voice state and sends nothing, and a
\* voice-server update that comes next sends no 'voiceUpdate'.
VoiceUpdateSent(s) == \E i \in 1..Len(s) : s[i].op = "voiceUpdate"

C11_VoiceUpdateNeedsBoth ==
  /\ [](VoiceUpdateSent(sent) => received = {"server", "state"})
  /\ []((call.name = "on_voice_state_update" /\ call.args[1].channel_id = None) =>
          /\ channel = None
          /\ _voice_state = << >>
          /\ sent = << >>)
  /\ [][(/\ call.name = "on_voice_state_update"
         /\ call.args[1].channel_id = None
         /\ call'.name = "on_voice_server_update") =>
          ~VoiceUpdateSent(sent')]_vars

\* After both kinds of update had been received, a voice-state update without
\* a channel_id emptied the voice state, and the voice-server update that
\* followed sent nothing.
C11_Witness ==
  /\ call.name = "on_voice_server_update"
  /\ state_update # << >>
  /\ state_update[1].channel_id = None
  /\ received = {"server"}
  /\ DOMAIN _voice_state = {"event"}
  /\ channel = None
  /\ sent = << >>

\* C12: disconnect() on a player the registry holds (one that completed
\* connect()) completes and leaves the registry without the guild id, channel
\* None, the connected flag false and is_playing and is_paused false.
C12_DisconnectUnregisters ==
  [][(call'.name = "disconnect" /\ guild_id \in DOMAIN _players) =>
       /\ raised' = None
       /\ guild_id \notin DOMAIN _players'
       /\ channel' = None
       /\ _is_connected' = FALSE
       /\ ~(_is_connected' /\ _current' # None)
       /\ ~(_is_connected' /\ _paused')]_vars

\* C13: after set_pause(p) completes exactly one 'pause' message carrying p
\* was sent; from then on, whatever else is called, is_paused equals p while
\* the connected flag is true; and is_paused is false whenever the connected
\* flag is false.
C13_PauseFollowsSetPause ==
  /\ [](call.name = "set_pause" =>
          /\ raised = None
          /\ sent = <<[op |-> "pause", guildId |-> str(guild_id),
                       pause |-> call.args[1]]>>
          /\ _paused = call.args[1])
  /\ [][call'.name # "set_pause" => _paused' = _paused]_vars
  /\ [](_is_connected => is_paused(Self) = _paused)
  /\ [](~_is_connected => ~is_paused(Self))

\* The player was paused while the connected flag was true, and something
\* else was called since.
C13_Witness ==
  /\ call.name = "seek"
  /\ _is_connected
  /\ _paused
  /\ is_paused(Self)

====
